---- MODULE Spec2Model ----
(***************************************************************************)
(* Model of BaseAPIService (src/index.ts): the constructor, which decides  *)
(* whether to install the tracing request hook, installs the response      *)
(* transforms and calls setupHooks; the hook itself, which fills in the    *)
(* transaction id, traceparent, X-Trace-ID and X-Source-Service headers of *)
(* a request; and the HTTP methods that wrap the transport instance.       *)
(*                                                                         *)
(* Strings that the code builds or inspects (header values, identifiers)   *)
(* are sequences of one-character strings, so that formatting and          *)
(* splitting are computed and not assumed.  Header names are TLA+ strings; *)
(* a header mapping is a function whose domain is the set of names that    *)
(* are present, looked up by exact name as the code does.                  *)
(***************************************************************************)
EXTENDS Integers, Sequences, FiniteSets, TLC

VARIABLES
    pc,             \* "new" before the constructor ran, "ready" after
    globalOtel,     \* TRUE iff a tracing API is resolvable in the process
    entropy,        \* the host's random source: [kind, seed]
    draws,          \* number of random arrays consumed so far (mod RngPeriod)
    cfg,            \* the destructured constructor configuration
    hookInstalled,  \* TRUE iff the request interceptor was registered
    otel,           \* the tracing API captured by the constructor
    sent,           \* the requests issued so far, as they left the request hook
    ctor,           \* the arguments the constructor was called with
    instance,       \* the transport instance: its configuration and defaults
    hookCalls,      \* the invocations of setupHooks so far
    calls,          \* the calls of get/post/.../postUploadFile so far
    flight          \* the requests in flight at once, each with its own headers

vars == <<pc, globalOtel, entropy, draws, cfg, hookInstalled, otel, sent,
          ctor, instance, hookCalls, calls, flight>>

----------------------------------------------------------------------------
(* Bounds of the model *)

\* the number of most recent requests kept for comparison in SpecPair
MaxRequests == 2

\* the random source does not repeat within RngPeriod consecutive draws
RngPeriod == 10

----------------------------------------------------------------------------
(* JavaScript values *)

\* JavaScript's undefined: a value different from every string
Undefined == <<"undefined">>

\* truthiness of a value of type string | undefined
Truthy(v) == v # Undefined /\ v # <<>>

\* a ?? b
Nullish(a, b) == IF a = Undefined THEN b ELSE a

\* headers[k]: property lookup by the exact key
HGet(h, k) == IF k \in DOMAIN h THEN h[k] ELSE Undefined

\* the assignment replaces the mapping by one that holds the new entry only
HSet_fresh(h, k, v) == [x \in {k} |-> v]

\* headers[k] = v
HSet(h, k, v) == [x \in (DOMAIN h) \cup {k} |-> IF x = k THEN v ELSE h[x]]

EmptyHeaders == [x \in {} |-> <<>>]

----------------------------------------------------------------------------
(* The random source *)

\* crypto.getRandomValues: byte i of the nonce-th array the host hands out.
\* The first byte is an injection of the nonce, so two arrays drawn within
\* one period differ; the other bytes cover values below and above 16.
getRandomValues(nonce, i) ==
    IF i = 1 THEN (entropy.seed + 17 * nonce) % 256
    ELSE (entropy.seed + 17 * nonce + 31 * i + 7 * i * i) % 256

\* Math.random() * 256 in quarters: a real in [0, 256) with a fraction
MathRandomTimes256(nonce, i) == 4 * getRandomValues(nonce, i) + ((nonce + i) % 4)

\* Math.floor of a value given in quarters
MathFloor(q) == q \div 4

HexDigits == <<"0", "1", "2", "3", "4", "5", "6", "7", "8", "9", "a", "b", "c", "d", "e", "f">>

\* b.toString(16) for a byte b
toString16(b) ==
    IF b < 16 THEN <<HexDigits[b + 1]>>
    ELSE <<HexDigits[(b \div 16) + 1], HexDigits[(b % 16) + 1]>>

\* padStart dropped: a byte below 16 renders as one digit
padStart_none(s) == s

\* s.padStart(2, '0')
padStart(s) == IF Len(s) < 2 THEN <<"0">> \o s ELSE s

RECURSIVE join(_)
\* parts.join('')
join(parts) == IF parts = <<>> THEN <<>> ELSE Head(parts) \o join(Tail(parts))

\* without a strong source the loop stops one byte early and the last byte
\* is never rendered
randomBytes_fallbackShort(length, nonce) ==
    IF entropy.kind = "crypto"
    THEN [i \in 1..(length \div 2) |-> getRandomValues(nonce, i)]
    ELSE [i \in 1..((length \div 2) - 1) |-> MathFloor(MathRandomTimes256(nonce, i))]

\* the Uint8Array filled by randomHex: length / 2 bytes from the strong
\* source when there is one, from Math.random otherwise
randomBytes(length, nonce) ==
    IF entropy.kind = "crypto"
    THEN [i \in 1..(length \div 2) |-> getRandomValues(nonce, i)]
    ELSE [i \in 1..(length \div 2) |-> MathFloor(MathRandomTimes256(nonce, i))]

randomHex(length, nonce) ==
    LET bytes == randomBytes(length, nonce)
    IN  join([i \in 1..Len(bytes) |-> padStart(toString16(bytes[i]))])

\* the nonce of the k-th array drawn after `drawn` arrays were consumed
NonceAt(drawn, k) == (drawn + k) % RngPeriod

\* the returned traceId is drawn anew instead of being the embedded one
generateTraceparent_detached(drawn) ==
    LET traceId == randomHex(32, NonceAt(drawn, 0))
        parentId == randomHex(16, NonceAt(drawn, 1))
    IN  [traceparent |-> <<"0", "0", "-">> \o traceId \o <<"-">> \o parentId \o <<"-", "0", "1">>,
         traceId |-> randomHex(32, NonceAt(drawn, 1))]

\* one value generated once and handed out again on every call
generateTraceparent_cached(drawn) ==
    LET traceId == randomHex(32, 0)
        parentId == randomHex(16, 1)
    IN  [traceparent |-> <<"0", "0", "-">> \o traceId \o <<"-">> \o parentId \o <<"-", "0", "1">>,
         traceId |-> traceId]

generateTraceparent(drawn) ==
    LET version == <<"0", "0">>
        traceId == randomHex(32, NonceAt(drawn, 0))
        parentId == randomHex(16, NonceAt(drawn, 1))
        flags == <<"0", "1">>
    IN  [traceparent |-> version \o <<"-">> \o traceId \o <<"-">> \o parentId \o <<"-">> \o flags,
         traceId |-> traceId]

\* one identifier generated once and handed out again on every call
uuidv4_reused(drawn) ==
    LET hex == [i \in 1..16 |-> padStart(toString16(
                    IF i = 7 THEN 64 ELSE IF i = 9 THEN 128 ELSE getRandomValues(0, i)))]
    IN  join(SubSeq(hex, 1, 4)) \o <<"-">> \o join(SubSeq(hex, 5, 6)) \o <<"-">>
        \o join(SubSeq(hex, 7, 8)) \o <<"-">> \o join(SubSeq(hex, 9, 10)) \o <<"-">>
        \o join(SubSeq(hex, 11, 16))

\* v4() of the uuid package: 16 random bytes, version and variant bits set,
\* rendered as 8-4-4-4-12 lowercase hex digits
uuidv4(drawn) ==
    LET rnds == randomBytes(32, NonceAt(drawn, 0))
        b == [i \in 1..16 |->
                IF i = 7 THEN (rnds[i] % 16) + 64
                ELSE IF i = 9 THEN (rnds[i] % 64) + 128
                ELSE rnds[i]]
        hex == [i \in 1..16 |-> padStart(toString16(b[i]))]
    IN  join(SubSeq(hex, 1, 4)) \o <<"-">> \o join(SubSeq(hex, 5, 6)) \o <<"-">>
        \o join(SubSeq(hex, 7, 8)) \o <<"-">> \o join(SubSeq(hex, 9, 10)) \o <<"-">>
        \o join(SubSeq(hex, 11, 16))

----------------------------------------------------------------------------
(* Configurations, requests and the tracing runtime *)

DefaultTransactionIdHeader == "X-Transaction-ID"

TransactionIdHeaders == {DefaultTransactionIdHeader, "X-Request-ID"}

ServiceNames == {Undefined, <<>>, <<"S", "V", "C">>}

\* the values the constructor destructures from its configuration
Configs ==
    [transactionIdHeader : TransactionIdHeaders,
     disableTransactionId : BOOLEAN,
     enableTraceContext : BOOLEAN,
     useTraceIdAsTransactionId : BOOLEAN,
     serviceName : ServiceNames]

\* before construction no configuration is held
NoConfig ==
    [transactionIdHeader |-> DefaultTransactionIdHeader,
     disableTransactionId |-> FALSE,
     enableTraceContext |-> FALSE,
     useTraceIdAsTransactionId |-> FALSE,
     serviceName |-> Undefined]

\* header names a caller may write, among them one the hook never touches
\* and two that differ from a managed name by letter case only
HeaderKeys ==
    {"X-Transaction-ID", "X-Request-ID", "traceparent", "X-Trace-ID",
     "X-Source-Service", "Authorization", "x-transaction-id", "Traceparent"}

CallerValue == <<"m", "y", "-", "i", "d">>

CallerValues == {<<>>, CallerValue}

\* RequestOptions.headers as the caller passes them: no mapping at all, an
\* empty one, one header (empty or not), or every header at once
CallerConfigs ==
    {[headersDefined |-> FALSE, headers |-> EmptyHeaders],
     [headersDefined |-> TRUE, headers |-> EmptyHeaders],
     [headersDefined |-> TRUE, headers |-> [x \in HeaderKeys |-> CallerValue]]}
    \cup {[headersDefined |-> TRUE, headers |-> [x \in {k} |-> v]] :
            k \in HeaderKeys, v \in CallerValues}

\* the smaller family used where two requests are compared
PairCallerConfigs ==
    {[headersDefined |-> TRUE, headers |-> EmptyHeaders],
     [headersDefined |-> TRUE, headers |-> [x \in {"traceparent"} |-> CallerValue]],
     [headersDefined |-> TRUE, headers |-> [x \in {DefaultTransactionIdHeader} |-> CallerValue]]}

\* trace ids of spans of the tracing runtime: 32 lowercase hex digits
TraceA == [i \in 1..32 |-> "a"]
TraceB == [i \in 1..32 |-> IF i % 2 = 0 THEN "0" ELSE "b"]

\* what otel.trace.getSpan(otel.context.active()) and spanContext() give:
\* no span, an error, or a span with its trace id
SpanStates ==
    {[kind |-> "none"], [kind |-> "throws"],
     [kind |-> "span", traceId |-> TraceA], [kind |-> "span", traceId |-> TraceB]}

\* getOTelAPI(): the API when the process can resolve one
getOTelAPI == globalOtel

\* the hook is installed whatever the configuration
shouldAddInterceptor_always(c) == TRUE

shouldAddInterceptor(c) ==
    ~c.disableTransactionId \/ c.enableTraceContext \/ Truthy(c.serviceName)

----------------------------------------------------------------------------
(* Response bodies.  A JavaScript value is a record tagged with its type;  *)
(* a string body is the sequence of its characters.                        *)

JUndefined == [type |-> "undefined"]
JNull == [type |-> "null"]
JBool(b) == [type |-> "boolean", b |-> b]
JNum(n) == [type |-> "number", n |-> n]
JStr(chars) == [type |-> "string", chars |-> chars]
JArr(items) == [type |-> "array", items |-> items]
JObj(keys, vals) == [type |-> "object", keys |-> keys, vals |-> vals]
JFormData(keys) == [type |-> "FormData", entries |-> keys]

\* JSON.parse, by recursive descent over the grammar of RFC 8259 without
\* fractions, exponents and escape sequences (no body below uses them).
\* A result is [ok |-> TRUE, val, pos] or, for a SyntaxError, [ok |-> FALSE].
Digits == <<"0", "1", "2", "3", "4", "5", "6", "7", "8", "9">>

SyntaxError == [ok |-> FALSE]

Parsed(val, pos) == [ok |-> TRUE, val |-> val, pos |-> pos]

\* the character at position i, "" past the end
At(text, i) == IF i >= 1 /\ i <= Len(text) THEN text[i] ELSE ""

IsDigit(ch) == \E d \in 1..10 : Digits[d] = ch

DigitValue(ch) == (CHOOSE d \in 1..10 : Digits[d] = ch) - 1

RECURSIVE skipWhitespace(_, _)
skipWhitespace(text, i) ==
    IF At(text, i) = " " THEN skipWhitespace(text, i + 1) ELSE i

parseLiteral(text, i, word, val) ==
    IF /\ i + Len(word) - 1 <= Len(text)
       /\ SubSeq(text, i, i + Len(word) - 1) = word
    THEN Parsed(val, i + Len(word))
    ELSE SyntaxError

RECURSIVE parseDigits(_, _, _)
parseDigits(text, i, acc) ==
    IF IsDigit(At(text, i))
    THEN parseDigits(text, i + 1, 10 * acc + DigitValue(At(text, i)))
    ELSE Parsed(acc, i)

parseNumber(text, i) ==
    LET negative == At(text, i) = "-"
        j == IF negative THEN i + 1 ELSE i
        magnitude == IF At(text, j) = "0" THEN Parsed(0, j + 1) ELSE parseDigits(text, j, 0)
    IN  IF ~IsDigit(At(text, j)) THEN SyntaxError
        ELSE IF At(text, j) = "0" /\ IsDigit(At(text, j + 1)) THEN SyntaxError
        ELSE Parsed(JNum(IF negative THEN 0 - magnitude.val ELSE magnitude.val), magnitude.pos)

\* the position of the quote that closes a string, 0 when there is none
RECURSIVE closingQuote(_, _)
closingQuote(text, i) ==
    IF At(text, i) = "" \/ At(text, i) = "\\" THEN 0
    ELSE IF At(text, i) = "\"" THEN i
    ELSE closingQuote(text, i + 1)

parseString(text, i) ==
    LET j == closingQuote(text, i + 1)
    IN  IF At(text, i) # "\"" \/ j = 0 THEN SyntaxError
        ELSE Parsed(JStr(SubSeq(text, i + 1, j - 1)), j + 1)

\* a later member of the same name replaces the earlier one
putMember(obj, key, val) ==
    IF \E k \in 1..Len(obj.keys) : obj.keys[k] = key
    THEN JObj(obj.keys, [k \in 1..Len(obj.keys) |->
                            IF obj.keys[k] = key THEN val ELSE obj.vals[k]])
    ELSE JObj(Append(obj.keys, key), Append(obj.vals, val))

RECURSIVE parseValue(_, _)
RECURSIVE parseElements(_, _, _)
RECURSIVE parseMembers(_, _, _)

parseElements(text, i, items) ==
    LET v == parseValue(text, i)
        j == skipWhitespace(text, v.pos)
    IN  IF ~v.ok THEN SyntaxError
        ELSE IF At(text, j) = ","
             THEN parseElements(text, skipWhitespace(text, j + 1), Append(items, v.val))
        ELSE IF At(text, j) = "]" THEN Parsed(JArr(Append(items, v.val)), j + 1)
        ELSE SyntaxError

parseMembers(text, i, obj) ==
    LET key == parseString(text, i)
        colon == skipWhitespace(text, key.pos)
        v == parseValue(text, skipWhitespace(text, colon + 1))
        j == skipWhitespace(text, v.pos)
    IN  IF ~key.ok THEN SyntaxError
        ELSE IF At(text, colon) # ":" THEN SyntaxError
        ELSE IF ~v.ok THEN SyntaxError
        ELSE IF At(text, j) = ","
             THEN parseMembers(text, skipWhitespace(text, j + 1), putMember(obj, key.val.chars, v.val))
        ELSE IF At(text, j) = "}" THEN Parsed(putMember(obj, key.val.chars, v.val), j + 1)
        ELSE SyntaxError

parseValue(text, i) ==
    LET ch == At(text, i)
        j == skipWhitespace(text, i + 1)
    IN  IF ch = "n" THEN parseLiteral(text, i, <<"n", "u", "l", "l">>, JNull)
        ELSE IF ch = "t" THEN parseLiteral(text, i, <<"t", "r", "u", "e">>, JBool(TRUE))
        ELSE IF ch = "f" THEN parseLiteral(text, i, <<"f", "a", "l", "s", "e">>, JBool(FALSE))
        ELSE IF ch = "\"" THEN parseString(text, i)
        ELSE IF ch = "-" \/ IsDigit(ch) THEN parseNumber(text, i)
        ELSE IF ch = "[" THEN
            IF At(text, j) = "]" THEN Parsed(JArr(<<>>), j + 1)
            ELSE parseElements(text, j, <<>>)
        ELSE IF ch = "{" THEN
            IF At(text, j) = "}" THEN Parsed(JObj(<<>>, <<>>), j + 1)
            ELSE parseMembers(text, j, JObj(<<>>, <<>>))
        ELSE SyntaxError

\* JSON.parse(text): one value, surrounded by optional white space
JSONparse(text) ==
    LET v == parseValue(text, skipWhitespace(text, 1))
    IN  IF v.ok /\ skipWhitespace(text, v.pos) = Len(text) + 1
        THEN [ok |-> TRUE, val |-> v.val]
        ELSE SyntaxError

\* the parse failure escapes the transform as undefined data
defaultTransform_strict(data) ==
    IF data.type = "string"
    THEN IF JSONparse(data.chars).ok THEN JSONparse(data.chars).val ELSE JUndefined
    ELSE data

\* typeof data === 'string' ? try JSON.parse(data) catch data : data
defaultTransform(data) ==
    IF data.type = "string"
    THEN IF JSONparse(data.chars).ok THEN JSONparse(data.chars).val ELSE data
    ELSE data

\* a transform supplied by the caller: it wraps what it is given under its name
userTransform(name, data) == [type |-> "transformed", by |-> name, of |-> data]

\* transformData: the chain applied from left to right
RECURSIVE transformData(_, _)
transformData(chain, data) ==
    IF chain = <<>> THEN data
    ELSE transformData(Tail(chain),
                       IF Head(chain) = "defaultTransform"
                       THEN defaultTransform(data)
                       ELSE userTransform(Head(chain), data))

\* response bodies that are JSON texts, each with the value it denotes
JsonBodies ==
    << [text |-> <<"{", "\"", "i", "d", "\"", ":", "1", "}">>,
        value |-> JObj(<< <<"i", "d">> >>, <<JNum(1)>>)],
       [text |-> <<"[", "1", ",", " ", "t", "r", "u", "e", ",", "n", "u", "l", "l", "]">>,
        value |-> JArr(<<JNum(1), JBool(TRUE), JNull>>)],
       [text |-> <<"\"", "o", "k", "\"">>, value |-> JStr(<<"o", "k">>)],
       [text |-> <<"-", "4", "2">>, value |-> JNum(0 - 42)],
       [text |-> <<"n", "u", "l", "l">>, value |-> JNull],
       [text |-> <<" ", "{", "\"", "a", "\"", " ", ":", " ", "[", "]", ",", "\"", "a", "\"", ":",
                   "{", "}", "}", " ">>,
        value |-> JObj(<< <<"a">> >>, <<JObj(<<>>, <<>>)>>)] >>

\* response bodies that are strings but no JSON texts
NonJsonBodies ==
    { <<"n", "o", "t", " ", "j", "s", "o", "n">>,
      <<>>,
      <<"{", "\"", "i", "d", "\"", ":", "1">>,
      <<"[", "1", ",", "]">>,
      <<"0", "1">>,
      <<"t", "r", "u", "e", " ", "1">> }

\* response bodies that are no strings: the transport decoded them already
DecodedBodies ==
    { JObj(<< <<"i", "d">> >>, <<JNum(1)>>), JUndefined, JNum(7) }

ResponseBodies ==
    {JStr(JsonBodies[b].text) : b \in DOMAIN JsonBodies}
    \cup {JStr(text) : text \in NonJsonBodies}
    \cup DecodedBodies

----------------------------------------------------------------------------
(* The constructor.  An object argument (the configuration, or a transport *)
(* configuration) is a function whose domain is the set of the properties  *)
(* it has; a missing property reads as undefined.                          *)

\* a setupHooks argument that was not passed
NoHooks == "undefined"

\* AxiosRequestConfig objects: with or without transformResponse, which is
\* one function or an array of functions
PlainAxiosConfig == [x \in {"baseURL"} |-> "https://api.test.com"]

TransformResponses ==
    {[isArray |-> FALSE, fn |-> "tagA"],
     [isArray |-> TRUE, items |-> <<>>],
     [isArray |-> TRUE, items |-> <<"tagA", "tagB">>],
     [isArray |-> TRUE, items |-> <<"tagB", "tagA">>]}

AxiosConfigs ==
    {PlainAxiosConfig}
    \cup {[x \in {"baseURL", "transformResponse"} |->
              IF x = "baseURL" THEN "https://api.test.com" ELSE t] : t \in TransformResponses}

\* new BaseAPIService({axiosConfig, ...all five options}): the calls that
\* range over every configuration
ObjectCall(axiosConfig, c) ==
    [configOrAxios |->
        [axiosConfig |-> axiosConfig,
         transactionIdHeader |-> c.transactionIdHeader,
         disableTransactionId |-> c.disableTransactionId,
         enableTraceContext |-> c.enableTraceContext,
         useTraceIdAsTransactionId |-> c.useTraceIdAsTransactionId,
         serviceName |-> c.serviceName],
     setupHooks |-> NoHooks]

TracingCalls == {ObjectCall(PlainAxiosConfig, c) : c \in Configs}

\* no constructor call yet
NoCall == [configOrAxios |-> [axiosConfig |-> PlainAxiosConfig], setupHooks |-> NoHooks]

\* no transport instance yet
NoInstance == [axiosConfig |-> PlainAxiosConfig, transformResponse |-> <<>>]

\* !('axiosConfig' in configOrAxios)
isLegacyCall(configOrAxios) == "axiosConfig" \notin DOMAIN configOrAxios

\* the legacy branch forgets the positional setupHooks
resolvedConfig_dropHooks(configOrAxios, setupHooks) ==
    IF isLegacyCall(configOrAxios)
    THEN [axiosConfig |-> configOrAxios, setupHooks |-> NoHooks]
    ELSE configOrAxios

resolvedConfig(configOrAxios, setupHooks) ==
    IF isLegacyCall(configOrAxios)
    THEN [axiosConfig |-> configOrAxios, setupHooks |-> setupHooks]
    ELSE configOrAxios

\* const { name = fallback } = resolvedConfig
Destructured(rc, name, fallback) == IF name \in DOMAIN rc THEN rc[name] ELSE fallback

\* the five tracing options as the constructor destructures them
TracingOptions(rc) ==
    [transactionIdHeader |-> Destructured(rc, "transactionIdHeader", DefaultTransactionIdHeader),
     disableTransactionId |-> Destructured(rc, "disableTransactionId", FALSE),
     enableTraceContext |-> Destructured(rc, "enableTraceContext", FALSE),
     useTraceIdAsTransactionId |-> Destructured(rc, "useTraceIdAsTransactionId", FALSE),
     serviceName |-> Destructured(rc, "serviceName", Undefined)]

\* axiosConfig.transformResponse ? (Array.isArray(..) ? .. : [..]) : []
userTransforms(axiosConfig) ==
    IF "transformResponse" \in DOMAIN axiosConfig
    THEN IF axiosConfig["transformResponse"].isArray
         THEN axiosConfig["transformResponse"].items
         ELSE <<axiosConfig["transformResponse"].fn>>
    ELSE <<>>

\* the caller's transforms take the place of the default one
createInstance_replace(axiosConfig) ==
    [axiosConfig |-> axiosConfig,
     transformResponse |-> IF userTransforms(axiosConfig) = <<>>
                           THEN <<"defaultTransform">>
                           ELSE userTransforms(axiosConfig)]

\* this.instance = axios.create(axiosConfig), then
\* this.instance.defaults.transformResponse = [defaultTransform, ...userTransforms]
createInstance(axiosConfig) ==
    [axiosConfig |-> axiosConfig,
     transformResponse |-> <<"defaultTransform">> \o userTransforms(axiosConfig)]

\* setupHooks is called again on top of the call of the constructor
invokeHooks_twice(hooks, inst, invocations) ==
    IF hooks # NoHooks
    THEN invocations \o <<[fn |-> hooks, arg |-> inst, during |-> "constructor"],
                          [fn |-> hooks, arg |-> inst, during |-> "constructor"]>>
    ELSE invocations

\* if (hooks) { hooks(this.instance); }
invokeHooks(hooks, inst, invocations) ==
    IF hooks # NoHooks
    THEN Append(invocations, [fn |-> hooks, arg |-> inst, during |-> "constructor"])
    ELSE invocations

----------------------------------------------------------------------------
(* The request interceptor, step by step.  A step takes and returns       *)
(* [headers, traceId, drawn, error]: the header mapping, the local         *)
(* traceId, the number of random arrays consumed, and the exception that   *)
(* left the hook ("none" when none did).                                   *)

\* traceId lives outside the hook and keeps the trace id of the span of the
\* previous request
StartHeaders_stale(config) ==
    [headers |-> IF config.headersDefined THEN config.headers ELSE EmptyHeaders,
     traceId |-> IF sent # <<>> /\ otel /\ sent[Len(sent)].span.kind = "span"
                 THEN sent[Len(sent)].span.traceId
                 ELSE Undefined,
     drawn |-> draws,
     error |-> "none"]

\* config.headers = config.headers ?? {}; let traceId: string | undefined
StartHeaders(config) ==
    [headers |-> IF config.headersDefined THEN config.headers ELSE EmptyHeaders,
     traceId |-> Undefined,
     drawn |-> draws,
     error |-> "none"]

\* X-Trace-ID is written without consulting enableTraceContext
LookupActiveSpan_always(st, span) ==
    IF otel /\ span.kind = "span"
    THEN [st EXCEPT
            !.traceId = span.traceId,
            !.headers =
                IF ~Truthy(HGet(st.headers, "X-Trace-ID"))
                THEN HSet(st.headers, "X-Trace-ID", span.traceId)
                ELSE st.headers]
    ELSE st

\* the lookup without its try/catch: an error of the tracing API leaves the hook
LookupActiveSpan_uncaught(st, span) ==
    IF otel /\ span.kind = "throws"
    THEN [st EXCEPT !.error = "otel"]
    ELSE IF otel /\ span.kind = "span"
    THEN [st EXCEPT
            !.traceId = span.traceId,
            !.headers =
                IF cfg.enableTraceContext /\ ~Truthy(HGet(st.headers, "X-Trace-ID"))
                THEN HSet(st.headers, "X-Trace-ID", span.traceId)
                ELSE st.headers]
    ELSE st

\* the tracing API is resolved anew by every request
LookupActiveSpan_resolveAgain(st, span) ==
    IF getOTelAPI /\ span.kind = "span"
    THEN [st EXCEPT
            !.traceId = span.traceId,
            !.headers =
                IF cfg.enableTraceContext /\ ~Truthy(HGet(st.headers, "X-Trace-ID"))
                THEN HSet(st.headers, "X-Trace-ID", span.traceId)
                ELSE st.headers]
    ELSE st

\* the span's trace id is observed but never written to X-Trace-ID
LookupActiveSpan_noHeader(st, span) ==
    IF otel /\ span.kind = "span"
    THEN [st EXCEPT !.traceId = span.traceId]
    ELSE st

\* if (otel) { try { ... } catch {} }: an error raised by the lookup is
\* caught before anything was assigned
LookupActiveSpan(st, span) ==
    IF otel /\ span.kind = "span"
    THEN [st EXCEPT
            !.traceId = span.traceId,
            !.headers =
                IF cfg.enableTraceContext /\ ~Truthy(HGet(st.headers, "X-Trace-ID"))
                THEN HSet(st.headers, "X-Trace-ID", span.traceId)
                ELSE st.headers]
    ELSE st

\* the synthesized trace id replaces the one observed from the active span
InjectTraceparent_overwrite(st) ==
    IF cfg.enableTraceContext /\ ~Truthy(HGet(st.headers, "traceparent"))
    THEN LET trace == generateTraceparent(st.drawn)
         IN  [st EXCEPT !.headers = HSet(st.headers, "traceparent", trace.traceparent),
                        !.traceId = trace.traceId,
                        !.drawn = st.drawn + 2]
    ELSE st

\* the trace id of the synthesized traceparent is written to X-Trace-ID too
InjectTraceparent_traceIdHeader(st) ==
    IF cfg.enableTraceContext /\ ~Truthy(HGet(st.headers, "traceparent"))
    THEN LET trace == generateTraceparent(st.drawn)
             traceId == Nullish(st.traceId, trace.traceId)
             headers == HSet(st.headers, "traceparent", trace.traceparent)
         IN  [st EXCEPT !.headers = IF ~Truthy(HGet(headers, "X-Trace-ID"))
                                    THEN HSet(headers, "X-Trace-ID", traceId)
                                    ELSE headers,
                        !.traceId = traceId,
                        !.drawn = st.drawn + 2]
    ELSE st

\* if (enableTraceContext && !config.headers['traceparent']) { ... }
InjectTraceparent(st) ==
    IF cfg.enableTraceContext /\ ~Truthy(HGet(st.headers, "traceparent"))
    THEN LET trace == generateTraceparent(st.drawn)
         IN  [st EXCEPT !.headers = HSet(st.headers, "traceparent", trace.traceparent),
                        !.traceId = Nullish(st.traceId, trace.traceId),
                        !.drawn = st.drawn + 2]
    ELSE st

\* the trace id is used without consulting useTraceIdAsTransactionId
InjectTransactionId_anyTraceId(st) ==
    IF ~cfg.disableTransactionId /\ ~Truthy(HGet(st.headers, cfg.transactionIdHeader))
    THEN IF Truthy(st.traceId)
         THEN [st EXCEPT !.headers = HSet(st.headers, cfg.transactionIdHeader, st.traceId)]
         ELSE [st EXCEPT !.headers = HSet(st.headers, cfg.transactionIdHeader, uuidv4(st.drawn)),
                         !.drawn = st.drawn + 1]
    ELSE st

\* disableTransactionId is not consulted
InjectTransactionId_ignoreDisable(st) ==
    IF ~Truthy(HGet(st.headers, cfg.transactionIdHeader))
    THEN IF cfg.useTraceIdAsTransactionId /\ Truthy(st.traceId)
         THEN [st EXCEPT !.headers = HSet(st.headers, cfg.transactionIdHeader, st.traceId)]
         ELSE [st EXCEPT !.headers = HSet(st.headers, cfg.transactionIdHeader, uuidv4(st.drawn)),
                         !.drawn = st.drawn + 1]
    ELSE st

\* the default header name is written instead of the configured one
InjectTransactionId_defaultName(st) ==
    IF ~cfg.disableTransactionId /\ ~Truthy(HGet(st.headers, cfg.transactionIdHeader))
    THEN IF cfg.useTraceIdAsTransactionId /\ Truthy(st.traceId)
         THEN [st EXCEPT !.headers = HSet(st.headers, DefaultTransactionIdHeader, st.traceId)]
         ELSE [st EXCEPT !.headers = HSet(st.headers, DefaultTransactionIdHeader, uuidv4(st.drawn)),
                         !.drawn = st.drawn + 1]
    ELSE st

\* a transaction id is generated whether or not the request has one
InjectTransactionId_always(st) ==
    IF ~cfg.disableTransactionId
    THEN IF cfg.useTraceIdAsTransactionId /\ Truthy(st.traceId)
         THEN [st EXCEPT !.headers = HSet(st.headers, cfg.transactionIdHeader, st.traceId)]
         ELSE [st EXCEPT !.headers = HSet(st.headers, cfg.transactionIdHeader, uuidv4(st.drawn)),
                         !.drawn = st.drawn + 1]
    ELSE st

\* if (!disableTransactionId && !config.headers[this.transactionIdHeader]) { ... }
InjectTransactionId(st) ==
    IF ~cfg.disableTransactionId /\ ~Truthy(HGet(st.headers, cfg.transactionIdHeader))
    THEN IF cfg.useTraceIdAsTransactionId /\ Truthy(st.traceId)
         THEN [st EXCEPT !.headers = HSet(st.headers, cfg.transactionIdHeader, st.traceId)]
         ELSE [st EXCEPT !.headers = HSet(st.headers, cfg.transactionIdHeader, uuidv4(st.drawn)),
                         !.drawn = st.drawn + 1]
    ELSE st

\* the service name is only written when transaction ids are injected too
InjectServiceName_withTransactionId(st) ==
    IF ~cfg.disableTransactionId /\ Truthy(cfg.serviceName)
       /\ ~Truthy(HGet(st.headers, "X-Source-Service"))
    THEN [st EXCEPT !.headers = HSet(st.headers, "X-Source-Service", cfg.serviceName)]
    ELSE st

\* if (serviceName && !config.headers['X-Source-Service']) { ... }
InjectServiceName(st) ==
    IF Truthy(cfg.serviceName) /\ ~Truthy(HGet(st.headers, "X-Source-Service"))
    THEN [st EXCEPT !.headers = HSet(st.headers, "X-Source-Service", cfg.serviceName)]
    ELSE st

\* the whole hook; an exception ends it where it is raised
interceptor(config, span) ==
    LET looked == LookupActiveSpan(StartHeaders(config), span)
    IN  IF looked.error # "none" THEN looked
        ELSE InjectServiceName(InjectTransactionId(InjectTraceparent(looked)))

\* one request through the client: the hook runs when it was installed, and
\* the transport receives the resulting headers
Dispatch(config, span) ==
    IF hookInstalled
    THEN LET st == interceptor(config, span)
         IN  [config |-> config, span |-> span, headers |-> st.headers,
              drawn |-> st.drawn % RngPeriod, hookError |-> st.error]
    ELSE [config |-> config, span |-> span,
          headers |-> IF config.headersDefined THEN config.headers ELSE EmptyHeaders,
          drawn |-> draws, hookError |-> "none"]

----------------------------------------------------------------------------
(* The HTTP methods.  Each wrapper makes calls of the transport instance;  *)
(* a call is [fn, url, data, config], where data is the positional body    *)
(* (undefined for get and delete, which take none) and config is a         *)
(* function over the properties whose value is not undefined.              *)

\* an options argument that was not passed
NoOptions == [defined |-> FALSE, bag |-> EmptyHeaders]

Options(bag) == [defined |-> TRUE, bag |-> bag]

\* { name: options?.name } for each name in names
Pick(options, names) ==
    IF options.defined
    THEN [k \in (DOMAIN options.bag) \cap names |-> options.bag[k]]
    ELSE EmptyHeaders

\* { ...f, ...g }
Merge(f, g) == [k \in (DOMAIN f) \cup (DOMAIN g) |-> IF k \in DOMAIN g THEN g[k] ELSE f[k]]

\* { name: value }, nothing when the value is undefined
Prop(name, value) ==
    IF value.type = "undefined" THEN EmptyHeaders ELSE [k \in {name} |-> value]

RequestOptionKeys == {"params", "headers", "timeout", "signal"}

get(url, options) ==
    <<[fn |-> "get", url |-> url, data |-> JUndefined,
       config |-> Pick(options, RequestOptionKeys)]>>

post(url, data, options) ==
    <<[fn |-> "post", url |-> url, data |-> data,
       config |-> Pick(options, RequestOptionKeys)]>>

put(url, data, options) ==
    <<[fn |-> "put", url |-> url, data |-> data,
       config |-> Pick(options, RequestOptionKeys)]>>

patch(url, data, options) ==
    <<[fn |-> "patch", url |-> url, data |-> data,
       config |-> Pick(options, RequestOptionKeys)]>>

\* the body of a delete is lost on the way
delete_noBody(url, data, options) ==
    <<[fn |-> "delete", url |-> url, data |-> JUndefined,
       config |-> Pick(options, RequestOptionKeys)]>>

delete(url, data, options) ==
    <<[fn |-> "delete", url |-> url, data |-> JUndefined,
       config |-> Merge(Prop("data", data), Pick(options, RequestOptionKeys))]>>

MultipartFormData ==
    <<"m", "u", "l", "t", "i", "p", "a", "r", "t", "/", "f", "o", "r", "m", "-", "d", "a", "t", "a">>

\* data && ..., for the payloads of an upload
IsPresent(data) == data.type \notin {"undefined", "null"}

\* every upload is marked as multipart, a FormData included
uploadHeaders_always(data, options) ==
    LET headers == IF options.defined /\ "headers" \in DOMAIN options.bag
                   THEN options.bag["headers"] ELSE EmptyHeaders
    IN  IF IsPresent(data)
        THEN HSet(headers, "Content-Type", MultipartFormData)
        ELSE headers

\* headers = { ...options?.headers }, marked as multipart for a plain object
uploadHeaders(data, options) ==
    LET headers == IF options.defined /\ "headers" \in DOMAIN options.bag
                   THEN options.bag["headers"] ELSE EmptyHeaders
    IN  IF IsPresent(data) /\ data.type # "FormData"
        THEN HSet(headers, "Content-Type", MultipartFormData)
        ELSE headers

postUploadFile(url, data, options) ==
    <<[fn |-> "post", url |-> url, data |-> data,
       config |-> Merge(Pick(options, {"params", "timeout", "signal", "onUploadProgress"}),
                        [k \in {"headers"} |-> uploadHeaders(data, options)])]>>

\* the calls of the instance that the method op.name makes
Invoke(op) ==
    CASE op.name = "get" -> get(op.url, op.options)
      [] op.name = "post" -> post(op.url, op.data, op.options)
      [] op.name = "put" -> put(op.url, op.data, op.options)
      [] op.name = "patch" -> patch(op.url, op.data, op.options)
      [] op.name = "delete" -> delete(op.url, op.data, op.options)
      [] op.name = "postUploadFile" -> postUploadFile(op.url, op.data, op.options)

\* the headers of a call of the instance, as the request hook receives them
HookConfig(call) ==
    [headersDefined |-> "headers" \in DOMAIN call.config,
     headers |-> IF "headers" \in DOMAIN call.config
                 THEN call.config["headers"] ELSE EmptyHeaders]

\* (error) => Promise.reject(error): the failure of an interceptor that ran
\* before the hook is passed on
onRejected(error) == error

\* what the instance settles a call with: the envelope of the response, its
\* data run through transformResponse, or the error of the transport; a
\* request the hook rejected never reaches the transport
Settle(hookError, reply, chain) ==
    IF reply.kind = "requestError"
    THEN [kind |-> "error",
          error |-> IF hookInstalled THEN onRejected(reply.error) ELSE reply.error]
    ELSE IF hookError # "none"
    THEN [kind |-> "error", error |-> [code |-> hookError, status |-> 0]]
    ELSE IF reply.kind = "response"
    THEN [kind |-> "response", status |-> reply.status,
          data |-> transformData(chain, reply.data)]
    ELSE [kind |-> "error", error |-> reply.error]

\* the wrapper catches the failure and resolves with undefined
Unwrap_swallow(settled) ==
    IF settled.kind = "response"
    THEN [kind |-> "resolved", value |-> settled.data]
    ELSE [kind |-> "resolved", value |-> JUndefined]

\* const response = await this.instance...; return response.data
Unwrap(settled) ==
    IF settled.kind = "response"
    THEN [kind |-> "resolved", value |-> settled.data]
    ELSE [kind |-> "rejected", error |-> settled.error]

----------------------------------------------------------------------------
(* Actions *)

EntropySources == {[kind |-> "crypto", seed |-> 0], [kind |-> "math", seed |-> 201]}

\* a process in which no client exists yet; its random source has already
\* handed out any number of arrays
Init ==
    /\ pc = "new"
    /\ globalOtel \in BOOLEAN
    /\ entropy \in EntropySources
    /\ draws \in 0..(RngPeriod - 1)
    /\ cfg = NoConfig
    /\ hookInstalled = FALSE
    /\ otel = FALSE
    /\ sent = <<>>
    /\ ctor = NoCall
    /\ instance = NoInstance
    /\ hookCalls = <<>>
    /\ calls = <<>>
    /\ flight = <<>>

\* the same process with an unused random source
InitPair == Init /\ draws = 0

\* new BaseAPIService(configOrAxios, setupHooks), for a call among `family`
ConstructFrom(family) ==
    /\ pc = "new"
    /\ \E call \in family :
        LET rc == resolvedConfig(call.configOrAxios, call.setupHooks)
            c == TracingOptions(rc)
            inst == createInstance(rc.axiosConfig)
        IN  /\ ctor' = call
            /\ cfg' = c
            /\ instance' = inst
            /\ hookInstalled' = shouldAddInterceptor(c)
            /\ otel' = IF shouldAddInterceptor(c) THEN getOTelAPI ELSE FALSE
            /\ hookCalls' = invokeHooks(Destructured(rc, "setupHooks", NoHooks), inst, hookCalls)
    /\ pc' = "ready"
    /\ UNCHANGED <<globalOtel, entropy, draws, sent, calls, flight>>

\* new BaseAPIService(config), over every tracing configuration
Construct == ConstructFrom(TracingCalls)

\* the active span at the time of a request: none without a tracing runtime
SpansNow == IF globalOtel THEN SpanStates ELSE {[kind |-> "none"]}

\* the first request of a client
Request ==
    /\ pc = "ready"
    /\ sent = <<>>
    /\ \E config \in CallerConfigs, span \in SpansNow :
        LET r == Dispatch(config, span)
        IN  /\ sent' = <<[config |-> r.config, span |-> r.span, headers |-> r.headers,
                           hookError |-> r.hookError]>>
            /\ draws' = r.drawn
    /\ UNCHANGED <<pc, globalOtel, entropy, cfg, hookInstalled, otel,
                   ctor, instance, hookCalls, calls, flight>>

\* a request of a client that issues up to MaxRequests requests
RequestLogged ==
    /\ pc = "ready"
    /\ Len(sent) < MaxRequests
    /\ \E config \in PairCallerConfigs, span \in SpansNow :
        LET r == Dispatch(config, span)
        IN  /\ sent' = Append(sent, [config |-> r.config, span |-> r.span, headers |-> r.headers,
                                      hookError |-> r.hookError])
            /\ draws' = r.drawn
    /\ UNCHANGED <<pc, globalOtel, entropy, cfg, hookInstalled, otel,
                   ctor, instance, hookCalls, calls, flight>>

\* the constructor calls of the clients whose methods are exercised: the
\* object form with the tracing options left out or all given, and the
\* legacy form, each with and without setupHooks
TracedConfig ==
    [transactionIdHeader |-> "X-Request-ID", disableTransactionId |-> FALSE,
     enableTraceContext |-> TRUE, useTraceIdAsTransactionId |-> TRUE,
     serviceName |-> <<"S", "V", "C">>]

HooksArguments == {NoHooks, "setupHooks"}

ClientCalls ==
    {[configOrAxios |-> a, setupHooks |-> h] : a \in AxiosConfigs, h \in HooksArguments}
    \cup {[configOrAxios |-> Merge([k \in {"axiosConfig"} |-> a],
                                    IF h = NoHooks THEN EmptyHeaders
                                    ELSE [k \in {"setupHooks"} |-> h]),
           setupHooks |-> NoHooks] : a \in AxiosConfigs, h \in HooksArguments}
    \cup {[configOrAxios |-> Merge(ObjectCall(a, TracedConfig).configOrAxios,
                                    [k \in {"setupHooks"} |-> h]),
           setupHooks |-> NoHooks] : a \in AxiosConfigs, h \in {"setupHooks"}}

ConstructClient == ConstructFrom(ClientCalls)

\* the options bags, payloads and method calls of the callers
Params == JObj(<< <<"p", "a", "g", "e">> >>, <<JNum(1)>>)

ApplicationJson == <<"a", "p", "p", "l", "i", "c", "a", "t", "i", "o", "n", "/", "j", "s", "o", "n">>

FullOptions ==
    Options([k \in {"params", "headers", "timeout", "signal"} |->
        CASE k = "params" -> Params
          [] k = "headers" -> [x \in {"Authorization", "X-Transaction-ID"} |-> CallerValue]
          [] k = "timeout" -> 5000
          [] k = "signal" -> "controller.signal"])

HeaderOptions ==
    Options([k \in {"headers"} |-> [x \in {"Content-Type"} |-> ApplicationJson]])

ProgressOptions ==
    Options([k \in {"params", "timeout", "signal", "onUploadProgress"} |->
        CASE k = "params" -> Params
          [] k = "timeout" -> 5000
          [] k = "signal" -> "controller.signal"
          [] k = "onUploadProgress" -> "onUploadProgress"])

UploadHeaderOptions ==
    Options([k \in {"headers", "onUploadProgress"} |->
        CASE k = "headers" -> [x \in {"Content-Type", "Authorization"} |->
                                  IF x = "Content-Type" THEN ApplicationJson ELSE CallerValue]
          [] k = "onUploadProgress" -> "onUploadProgress"])

PlainPayload == JObj(<< <<"n", "a", "m", "e">> >>, <<JStr(<<"J", "o">>)>>)

FormDataPayload == JFormData(<< <<"f", "i", "l", "e">> >>)

ClientOps ==
    {[name |-> "get", url |-> "/users", data |-> JUndefined, options |-> o] :
        o \in {NoOptions, Options(EmptyHeaders), FullOptions, HeaderOptions}}
    \cup {[name |-> n, url |-> "/users/1", data |-> d, options |-> o] :
            n \in {"post", "put", "patch", "delete"},
            d \in {JUndefined, PlainPayload},
            o \in {NoOptions, FullOptions}}
    \cup {[name |-> "postUploadFile", url |-> "/upload", data |-> d, options |-> o] :
            d \in {JUndefined, PlainPayload, FormDataPayload},
            o \in {NoOptions, FullOptions, ProgressOptions, UploadHeaderOptions}}

\* what the transport answers: a response with one of the bodies, or a failure
TransportErrors ==
    {[code |-> "ERR_BAD_RESPONSE", status |-> 500],
     [code |-> "ERR_BAD_REQUEST", status |-> 404],
     [code |-> "ERR_NETWORK", status |-> 0],
     [code |-> "ERR_CANCELED", status |-> 0]}

Replies ==
    {[kind |-> "response", status |-> 200, data |-> b] : b \in ResponseBodies}
    \cup {[kind |-> "error", error |-> e] : e \in TransportErrors}

\* an interceptor that setupHooks installed runs before the hook and may fail
InterceptorFailures ==
    IF hookCalls = <<>> THEN {}
    ELSE {[kind |-> "requestError", error |-> [code |-> "ERR_INTERCEPTOR", status |-> 0]]}

ClientSpans == {span \in SpansNow : span.kind \in {"none", "throws"}}

\* a call that fails puts the configuration of the client back to the defaults
Call_failureResets ==
    /\ pc = "ready"
    /\ calls = <<>>
    /\ \E op \in ClientOps, span \in ClientSpans, reply \in Replies \cup InterceptorFailures :
        LET made == Invoke(op)
            r == Dispatch(HookConfig(made[1]), span)
            settled == Settle(r.hookError, reply, instance.transformResponse)
        IN  /\ sent' = IF reply.kind = "requestError" THEN sent
                       ELSE Append(sent, [config |-> r.config, span |-> r.span,
                                          headers |-> r.headers, hookError |-> r.hookError])
            /\ draws' = IF reply.kind = "requestError" THEN draws ELSE r.drawn
            /\ calls' = <<[op |-> op, made |-> made, reply |-> reply,
                            settled |-> settled, outcome |-> Unwrap(settled)]>>
            /\ cfg' = IF settled.kind = "error" THEN NoConfig ELSE cfg
    /\ UNCHANGED <<pc, globalOtel, entropy, hookInstalled, otel,
                   ctor, instance, hookCalls, flight>>

\* the first call of a method of a client, from the wrapper through the
\* request hook and the transport to the outcome the caller awaits
Call ==
    /\ pc = "ready"
    /\ calls = <<>>
    /\ \E op \in ClientOps, span \in ClientSpans, reply \in Replies \cup InterceptorFailures :
        LET made == Invoke(op)
            r == Dispatch(HookConfig(made[1]), span)
            settled == Settle(r.hookError, reply, instance.transformResponse)
        IN  /\ sent' = IF reply.kind = "requestError" THEN sent
                       ELSE Append(sent, [config |-> r.config, span |-> r.span,
                                          headers |-> r.headers, hookError |-> r.hookError])
            /\ draws' = IF reply.kind = "requestError" THEN draws ELSE r.drawn
            /\ calls' = <<[op |-> op, made |-> made, reply |-> reply,
                            settled |-> settled, outcome |-> Unwrap(settled)]>>
    /\ UNCHANGED <<pc, globalOtel, entropy, cfg, hookInstalled, otel,
                   ctor, instance, hookCalls, flight>>

\* requests in flight at once.  A method call suspends at its await before
\* the hook has run and again until the transport answers; the hook itself
\* is one synchronous function and runs from its first statement to its
\* return in one step.
ConcurrentConfigs ==
    {c \in Configs : /\ c.transactionIdHeader = DefaultTransactionIdHeader
                     /\ ~c.disableTransactionId
                     /\ c.serviceName = <<"S", "V", "C">>}

\* at the moment a hook runs there is no active span, or one of trace A
ConcurrentSpans == {span \in SpansNow : span = [kind |-> "none"] \/ span = [kind |-> "span", traceId |-> TraceA]}

ConcurrentCalls == {ObjectCall(PlainAxiosConfig, c) : c \in ConcurrentConfigs}

ConstructConcurrent == ConstructFrom(ConcurrentCalls)

\* a method is called while earlier requests are still in flight
Issue ==
    /\ pc = "ready"
    /\ Len(flight) < MaxRequests
    /\ \E config \in PairCallerConfigs :
        flight' = Append(flight,
            [config |-> config, phase |-> "issued", span |-> [kind |-> "none"],
             headers |-> IF config.headersDefined THEN config.headers ELSE EmptyHeaders])
    /\ UNCHANGED <<pc, globalOtel, entropy, draws, cfg, hookInstalled, otel, sent,
                   ctor, instance, hookCalls, calls>>

\* the headers of every request issued with the same options are one object
HookedFlight_aliased(n, r) ==
    [m \in DOMAIN flight |->
        IF m = n
        THEN [flight[n] EXCEPT !.phase = "hooked", !.span = r.span, !.headers = r.headers]
        ELSE IF flight[m].config = flight[n].config
        THEN [flight[m] EXCEPT !.headers = r.headers]
        ELSE flight[m]]

\* the hook has decided the headers of request n: they are written to the
\* configuration of that request
HookedFlight(n, r) ==
    [flight EXCEPT ![n] = [@ EXCEPT !.phase = "hooked", !.span = r.span,
                                    !.headers = r.headers]]

\* the request hook runs for one of the requests that wait for it
RunHook ==
    /\ pc = "ready"
    /\ \E n \in DOMAIN flight, span \in ConcurrentSpans :
        /\ flight[n].phase = "issued"
        /\ LET r == Dispatch(flight[n].config, span)
           IN  /\ flight' = HookedFlight(n, r)
               /\ draws' = r.drawn
    /\ UNCHANGED <<pc, globalOtel, entropy, cfg, hookInstalled, otel, sent,
                   ctor, instance, hookCalls, calls>>

\* the transport answers one of the requests it was handed
Respond ==
    /\ pc = "ready"
    /\ \E n \in DOMAIN flight :
        /\ flight[n].phase = "hooked"
        /\ flight' = [flight EXCEPT ![n].phase = "done"]
    /\ UNCHANGED <<pc, globalOtel, entropy, draws, cfg, hookInstalled, otel, sent,
                   ctor, instance, hookCalls, calls>>

\* the application registers a tracing API in the process-global slot
\* (globalThis.__otel_api) at some moment, before or after the client exists
RegisterOtel ==
    /\ ~globalOtel
    /\ globalOtel' = TRUE
    /\ UNCHANGED <<pc, entropy, draws, cfg, hookInstalled, otel, sent,
                   ctor, instance, hookCalls, calls, flight>>

\* clients whose setupHooks installs a response interceptor that sends the
\* configuration of a failed request again
RetryCalls ==
    {[configOrAxios |-> Merge(ObjectCall(PlainAxiosConfig, c).configOrAxios,
                               [k \in {"setupHooks"} |-> "setupHooks"]),
      setupHooks |-> NoHooks] : c \in Configs}

ConstructRetrying == ConstructFrom(RetryCalls)

RefreshedToken == <<"B", "e", "a", "r", "e", "r", " ", "t", "2">>

\* instance.request(error.config): the response interceptor sends the first
\* request again, with the headers it left with and, after a token refresh,
\* a new Authorization; the request passes the request hook once more
Resend ==
    /\ pc = "ready"
    /\ Len(sent) = 1
    /\ hookCalls # <<>>
    /\ \E refreshed \in BOOLEAN, span \in SpansNow :
        LET headers == IF refreshed
                       THEN HSet(sent[1].headers, "Authorization", RefreshedToken)
                       ELSE sent[1].headers
            r == Dispatch([headersDefined |-> TRUE, headers |-> headers], span)
        IN  /\ sent' = Append(sent, [config |-> r.config, span |-> r.span,
                                      headers |-> r.headers, hookError |-> r.hookError])
            /\ draws' = r.drawn
    /\ UNCHANGED <<pc, globalOtel, entropy, cfg, hookInstalled, otel,
                   ctor, instance, hookCalls, calls, flight>>

Next == Construct \/ Request

Spec == Init /\ [][Next]_vars

NextPair == Construct \/ RequestLogged

SpecPair == InitPair /\ [][NextPair]_vars

\* a process that starts with a fresh cryptographic random source
InitClient == Init /\ draws = 0 /\ entropy.kind = "crypto"

NextClient == ConstructClient \/ Call

SpecClient == InitClient /\ [][NextClient]_vars

NextRetry == ConstructRetrying \/ Request \/ Resend

SpecRetry == InitPair /\ [][NextRetry]_vars

NextLate == Construct \/ RegisterOtel \/ Request

SpecLate == InitClient /\ [][NextLate]_vars

NextConcurrent == ConstructConcurrent \/ Issue \/ RunHook \/ Respond

SpecConcurrent == InitClient /\ [][NextConcurrent]_vars

----------------------------------------------------------------------------
(* Vocabulary of the properties *)

Requests == 1..Len(sent)

\* the headers the caller supplied with request i
In(i) == IF sent[i].config.headersDefined THEN sent[i].config.headers ELSE EmptyHeaders

\* the headers request i left with
Out(i) == sent[i].headers

\* the caller supplied header k with request i
Supplied(i, k) == k \in DOMAIN In(i)

\* the hook left header k of request i as the caller gave it (absent if absent)
Kept(i, k) == HGet(Out(i), k) = HGet(In(i), k)

\* request i was issued while the client's tracing API reported an active span
SpanObserved(i) == otel /\ sent[i].span.kind = "span"

IsHex(c) == \E d \in 1..16 : HexDigits[d] = c

AllHex(s) == \A n \in 1..Len(s) : IsHex(s[n])

\* ^00-[0-9a-f]{32}-[0-9a-f]{16}-01$
IsTraceparent(v) ==
    /\ Len(v) = 55
    /\ SubSeq(v, 1, 3) = <<"0", "0", "-">>
    /\ AllHex(SubSeq(v, 4, 35))
    /\ v[36] = "-"
    /\ AllHex(SubSeq(v, 37, 52))
    /\ SubSeq(v, 53, 55) = <<"-", "0", "1">>

\* ^[0-9a-f]{8}-[0-9a-f]{4}-4[0-9a-f]{3}-[89ab][0-9a-f]{3}-[0-9a-f]{12}$
IsUuidV4(v) ==
    /\ Len(v) = 36
    /\ \A n \in 1..36 : IF n \in {9, 14, 19, 24} THEN v[n] = "-" ELSE IsHex(v[n])
    /\ v[15] = "4"
    /\ v[20] \in {"8", "9", "a", "b"}

RECURSIVE SplitDash(_)
\* v.split('-')
SplitDash(v) ==
    IF \A n \in 1..Len(v) : v[n] # "-" THEN <<v>>
    ELSE LET n == CHOOSE m \in 1..Len(v) : v[m] = "-" /\ \A q \in 1..(m - 1) : v[q] # "-"
         IN  <<SubSeq(v, 1, n - 1)>> \o SplitDash(SubSeq(v, n + 1, Len(v)))

\* v.split('-')[1]: the second '-'-separated field, undefined when there is none
TraceIdSegment(v) ==
    IF v = Undefined \/ Len(SplitDash(v)) < 2 THEN Undefined ELSE SplitDash(v)[2]

\* the hook wrote the traceparent of request i
Synthesized(i) ==
    HGet(Out(i), "traceparent") # HGet(In(i), "traceparent")

----------------------------------------------------------------------------
(* Properties *)

\* C1: non-clobber -- if the caller supplied the configured transaction
\* header, 'traceparent' or 'X-Source-Service' with any string value, the
\* request leaves with exactly that value in that header.
\* Violated: an empty caller value is falsy and is overwritten.
C1_NonClobber ==
    \A i \in Requests :
        \A k \in {cfg.transactionIdHeader, "traceparent", "X-Source-Service"} :
            Supplied(i, k) => HGet(Out(i), k) = In(i)[k]

\* C2: with transaction injection enabled and no caller-supplied transaction
\* header, the request leaves with the transaction header set, to a
\* UUID-v4-shaped value or, when useTraceIdAsTransactionId is set, to the
\* trace id of the observed span or of the traceparent synthesized for it.
C2_TransactionIdPresent ==
    \A i \in Requests :
        (~cfg.disableTransactionId /\ ~Supplied(i, cfg.transactionIdHeader)) =>
            LET v == HGet(Out(i), cfg.transactionIdHeader)
            IN  /\ v # Undefined
                /\ \/ IsUuidV4(v)
                   \/ /\ cfg.useTraceIdAsTransactionId
                      /\ \/ SpanObserved(i) /\ v = sent[i].span.traceId
                         \/ Synthesized(i) /\ v = TraceIdSegment(HGet(Out(i), "traceparent"))

\* a request took its transaction id from the traceparent synthesized for it
C2_Witness ==
    \E i \in Requests :
        /\ ~cfg.disableTransactionId /\ ~Supplied(i, cfg.transactionIdHeader)
        /\ cfg.useTraceIdAsTransactionId /\ cfg.enableTraceContext
        /\ ~SpanObserved(i) /\ Synthesized(i)
        /\ HGet(Out(i), cfg.transactionIdHeader) = TraceIdSegment(HGet(Out(i), "traceparent"))

C4_PassThrough ==
    (/\ pc = "ready"
     /\ cfg.disableTransactionId /\ ~cfg.enableTraceContext
     /\ cfg.serviceName = Undefined) =>
        /\ ~hookInstalled
        /\ \A i \in Requests : Out(i) = In(i)

\* a request with caller headers went through such a client, under a span
C4_Witness ==
    /\ pc = "ready"
    /\ cfg.disableTransactionId /\ ~cfg.enableTraceContext
    /\ cfg.serviceName = Undefined
    /\ cfg.useTraceIdAsTransactionId
    /\ \E i \in Requests :
        /\ sent[i].span.kind = "span"
        /\ DOMAIN In(i) = {"Authorization"}
        /\ Out(i) = In(i)

\* C5: with disableTransactionId the hook never writes the transaction
\* header: it leaves as the caller gave it, absent when the caller gave none.
C5_NoTransactionIdWhenDisabled ==
    cfg.disableTransactionId =>
        \A i \in Requests : Kept(i, cfg.transactionIdHeader)

\* the hook ran with every other feature on, under a span, and the request
\* left without a transaction header
C5_Witness ==
    /\ cfg.disableTransactionId /\ hookInstalled
    /\ cfg.enableTraceContext /\ cfg.useTraceIdAsTransactionId
    /\ Truthy(cfg.serviceName)
    /\ \E i \in Requests :
        /\ SpanObserved(i)
        /\ ~Supplied(i, cfg.transactionIdHeader)
        /\ Synthesized(i)
        /\ HGet(Out(i), cfg.transactionIdHeader) = Undefined

\* C6: with a custom transaction header name N and injection enabled, a
\* request without a caller-supplied N leaves with N populated, and the hook
\* never writes 'X-Transaction-ID'.
C6_CustomHeaderName ==
    (cfg.transactionIdHeader # DefaultTransactionIdHeader /\ ~cfg.disableTransactionId) =>
        \A i \in Requests :
            /\ ~Supplied(i, cfg.transactionIdHeader) => Truthy(HGet(Out(i), cfg.transactionIdHeader))
            /\ Kept(i, DefaultTransactionIdHeader)

\* a request without any header left such a client with N set and without
\* 'X-Transaction-ID'
C6_Witness ==
    /\ cfg.transactionIdHeader = "X-Request-ID" /\ ~cfg.disableTransactionId
    /\ \E i \in Requests :
        /\ DOMAIN In(i) = {}
        /\ IsUuidV4(HGet(Out(i), "X-Request-ID"))
        /\ HGet(Out(i), DefaultTransactionIdHeader) = Undefined

\* C7 as claimed: whenever serviceName is configured and the request has no
\* 'X-Source-Service' header, it leaves with 'X-Source-Service' equal to
\* serviceName, whatever the other options and the active span.
\* Violated: an empty serviceName is falsy and nothing is written.
C7_Original ==
    (pc = "ready" /\ cfg.serviceName # Undefined) =>
        \A i \in Requests :
            ~Supplied(i, "X-Source-Service") => HGet(Out(i), "X-Source-Service") = cfg.serviceName

\* C7 amended: the same, whenever a non-empty serviceName is configured.
C7_ServiceNameInjected ==
    Truthy(cfg.serviceName) =>
        \A i \in Requests :
            ~Supplied(i, "X-Source-Service") => HGet(Out(i), "X-Source-Service") = cfg.serviceName

\* the service name was written with transaction ids disabled, trace context
\* off and a span active
C7_Witness ==
    /\ Truthy(cfg.serviceName)
    /\ cfg.disableTransactionId /\ ~cfg.enableTraceContext /\ cfg.useTraceIdAsTransactionId
    /\ \E i \in Requests :
        /\ SpanObserved(i)
        /\ ~Supplied(i, "X-Source-Service")
        /\ HGet(Out(i), "X-Source-Service") = <<"S", "V", "C">>

\* C8: every traceparent the client generates is '00-' + traceId + '-' +
\* parentId + '-01' with 32 and 16 lowercase hex digits, and the traceId
\* returned with it is the one embedded in it -- for the next value the
\* generator would return, and for every traceparent the hook has written.
C8_TraceparentFormat ==
    /\ LET trace == generateTraceparent(draws)
       IN  /\ IsTraceparent(trace.traceparent)
           /\ trace.traceId = TraceIdSegment(trace.traceparent)
    /\ \A i \in Requests :
        (hookInstalled /\ Synthesized(i)) => IsTraceparent(HGet(Out(i), "traceparent"))

\* the hook wrote a traceparent whose first random byte is below 16
C8_Witness ==
    \E i \in Requests :
        /\ hookInstalled /\ Synthesized(i)
        /\ HGet(Out(i), "traceparent")[4] = "0"

\* C9: without enableTraceContext the hook writes neither 'traceparent' nor
\* 'X-Trace-ID', also under an active span and with useTraceIdAsTransactionId.
C9_NoTraceHeadersWhenDisabled ==
    ~cfg.enableTraceContext =>
        \A i \in Requests : Kept(i, "traceparent") /\ Kept(i, "X-Trace-ID")

\* the hook took the transaction id from an active span and still wrote no
\* trace header
C9_Witness ==
    /\ ~cfg.enableTraceContext /\ cfg.useTraceIdAsTransactionId /\ ~cfg.disableTransactionId
    /\ \E i \in Requests :
        /\ SpanObserved(i)
        /\ DOMAIN In(i) = {}
        /\ HGet(Out(i), cfg.transactionIdHeader) = sent[i].span.traceId
        /\ HGet(Out(i), "traceparent") = Undefined
        /\ HGet(Out(i), "X-Trace-ID") = Undefined

\* requests i and j of one client, both with transaction injection enabled
\* and without a caller-supplied transaction header
BothInjected(i, j) ==
    /\ i < j
    /\ ~cfg.disableTransactionId
    /\ ~Supplied(i, cfg.transactionIdHeader)
    /\ ~Supplied(j, cfg.transactionIdHeader)

\* C10 as claimed: two such requests leave with different transaction ids,
\* under every flag combination and also under an active span.
\* Violated: with useTraceIdAsTransactionId both take the trace id of the
\* same active trace.
C10_Original ==
    \A i, j \in Requests :
        BothInjected(i, j) =>
            HGet(Out(i), cfg.transactionIdHeader) # HGet(Out(j), cfg.transactionIdHeader)

\* C10 amended: two such requests leave with different transaction ids,
\* except that with useTraceIdAsTransactionId two requests issued under
\* active spans of the same trace both carry that trace's id.
C10_DistinctTransactionIds ==
    \A i, j \in Requests :
        BothInjected(i, j) =>
            (HGet(Out(i), cfg.transactionIdHeader) = HGet(Out(j), cfg.transactionIdHeader)
             <=> /\ cfg.useTraceIdAsTransactionId
                 /\ SpanObserved(i) /\ SpanObserved(j)
                 /\ sent[i].span.traceId = sent[j].span.traceId)

\* two such requests both got a UUID, and they differ
C10_Witness ==
    \E i, j \in Requests :
        /\ BothInjected(i, j)
        /\ IsUuidV4(HGet(Out(i), cfg.transactionIdHeader))
        /\ IsUuidV4(HGet(Out(j), cfg.transactionIdHeader))
        /\ HGet(Out(i), cfg.transactionIdHeader) # HGet(Out(j), cfg.transactionIdHeader)

\* C11: two requests of one client with enableTraceContext and without a
\* caller-supplied 'traceparent' leave with different, well-formed
\* traceparent values: each is generated for its request and never reused.
C11_DistinctTraceparents ==
    \A i, j \in Requests :
        (/\ i < j
         /\ cfg.enableTraceContext
         /\ ~Supplied(i, "traceparent") /\ ~Supplied(j, "traceparent")) =>
            /\ IsTraceparent(HGet(Out(i), "traceparent"))
            /\ IsTraceparent(HGet(Out(j), "traceparent"))
            /\ HGet(Out(i), "traceparent") # HGet(Out(j), "traceparent")
            /\ TraceIdSegment(HGet(Out(i), "traceparent")) # TraceIdSegment(HGet(Out(j), "traceparent"))

\* two such requests were issued under spans of the same trace
C11_Witness ==
    \E i, j \in Requests :
        /\ i < j
        /\ cfg.enableTraceContext
        /\ ~Supplied(i, "traceparent") /\ ~Supplied(j, "traceparent")
        /\ SpanObserved(i) /\ SpanObserved(j)
        /\ sent[i].span.traceId = sent[j].span.traceId
        /\ HGet(Out(i), "traceparent") # HGet(Out(j), "traceparent")

\* C15: under an active span, with useTraceIdAsTransactionId and without a
\* caller-supplied transaction header, the transaction id is the span's
\* trace id, also when a traceparent is synthesized in the same invocation.
C15_SpanTraceIdWins ==
    \A i \in Requests :
        (/\ SpanObserved(i)
         /\ cfg.useTraceIdAsTransactionId /\ ~cfg.disableTransactionId
         /\ ~Supplied(i, cfg.transactionIdHeader)) =>
            HGet(Out(i), cfg.transactionIdHeader) = sent[i].span.traceId

\* such a request for which a traceparent with another trace id was written
C15_Witness ==
    \E i \in Requests :
        /\ SpanObserved(i)
        /\ cfg.useTraceIdAsTransactionId /\ ~cfg.disableTransactionId
        /\ cfg.enableTraceContext
        /\ ~Supplied(i, cfg.transactionIdHeader)
        /\ Synthesized(i)
        /\ HGet(Out(i), cfg.transactionIdHeader) = sent[i].span.traceId
        /\ TraceIdSegment(HGet(Out(i), "traceparent")) # sent[i].span.traceId

\* C16: when the tracing API raises on the span lookup, the request is not
\* rejected and its headers are those the hook decides when no span is
\* observed at all -- stated of every step that issues a request.
C16_LookupFailureAbsorbed ==
    [][(/\ sent = <<>> /\ sent' # <<>>
        /\ otel /\ sent'[1].span.kind = "throws") =>
            /\ sent'[1].hookError = "none"
            /\ sent'[1].headers = interceptor(sent'[1].config, [kind |-> "none"]).headers
            /\ HGet(sent'[1].headers, "X-Trace-ID") = HGet(In(1)', "X-Trace-ID")]_vars

\* a request with every feature on was issued while the lookup raised, and
\* left with a synthesized traceparent whose trace id is the transaction id
C16_Witness ==
    \E i \in Requests :
        /\ otel /\ sent[i].span.kind = "throws"
        /\ sent[i].hookError = "none"
        /\ cfg.enableTraceContext /\ cfg.useTraceIdAsTransactionId /\ ~cfg.disableTransactionId
        /\ Truthy(cfg.serviceName)
        /\ DOMAIN In(i) = {}
        /\ HGet(Out(i), cfg.transactionIdHeader) = TraceIdSegment(HGet(Out(i), "traceparent"))
        /\ HGet(Out(i), "X-Source-Service") = cfg.serviceName

----------------------------------------------------------------------------
(* Vocabulary of the properties about the methods *)

Calls == 1..Len(calls)

\* the transport configuration the constructor was given, in either form
GivenAxiosConfig ==
    IF "axiosConfig" \in DOMAIN ctor.configOrAxios
    THEN ctor.configOrAxios["axiosConfig"]
    ELSE ctor.configOrAxios

\* the transforms the caller listed there, in the caller's order
CallerTransforms ==
    IF "transformResponse" \notin DOMAIN GivenAxiosConfig THEN <<>>
    ELSE IF GivenAxiosConfig["transformResponse"].isArray
    THEN GivenAxiosConfig["transformResponse"].items
    ELSE <<GivenAxiosConfig["transformResponse"].fn>>

\* value handed through the caller's transforms, one after the other
RECURSIVE Through(_, _)
Through(names, value) ==
    IF names = <<>> THEN value
    ELSE Through(Tail(names), [type |-> "transformed", by |-> Head(names), of |-> value])

\* what a body is to be normalised to: the value a JSON text denotes, and
\* the body itself otherwise
Normalised(body) ==
    IF body.type = "string" /\ \E b \in DOMAIN JsonBodies : JsonBodies[b].text = body.chars
    THEN JsonBodies[CHOOSE b \in DOMAIN JsonBodies : JsonBodies[b].text = body.chars].value
    ELSE body

\* the setupHooks callback the constructor was given, in either form
GivenHooks ==
    IF "axiosConfig" \in DOMAIN ctor.configOrAxios
    THEN IF "setupHooks" \in DOMAIN ctor.configOrAxios
         THEN ctor.configOrAxios["setupHooks"] ELSE NoHooks
    ELSE ctor.setupHooks

----------------------------------------------------------------------------
\* C12: every response body is normalised before it is delivered: a string
\* that is a JSON text arrives as the value it denotes, a string that is no
\* JSON text arrives as the identical string and the call is not rejected,
\* and a body that is no string arrives unchanged.  The receiver is the
\* caller of the method, or the first of the caller's own transforms.
C12_ResponseNormalisation ==
    \A i \in Calls :
        calls[i].reply.kind = "response" =>
            /\ calls[i].outcome.kind = "resolved"
            /\ calls[i].outcome.value = Through(CallerTransforms, Normalised(calls[i].reply.data))

\* a call answered with the body 'not json' on a client without transforms
\* of its own, which resolved with that string
C12_Witness ==
    /\ calls # <<>>
    /\ CallerTransforms = <<>>
    /\ calls[1].reply.kind = "response"
    /\ calls[1].reply.data = JStr(<<"n", "o", "t", " ", "j", "s", "o", "n">>)
    /\ calls[1].outcome = [kind |-> "resolved", value |-> calls[1].reply.data]

\* C13: the installed chain is the default JSON transform followed by the
\* caller's transforms in the order given, and a response reaches the caller
\* as the caller's transforms applied, in that order, to the output of the
\* default transform.
C13_TransformComposition ==
    pc = "ready" =>
        /\ instance.transformResponse = <<"defaultTransform">> \o CallerTransforms
        /\ \A i \in Calls :
            calls[i].reply.kind = "response" =>
                calls[i].outcome.value
                    = Through(CallerTransforms, defaultTransform(calls[i].reply.data))

\* a client given the array [tagA, tagB] answered with the text {"id":1}
C13_Witness ==
    /\ calls # <<>>
    /\ CallerTransforms = <<"tagA", "tagB">>
    /\ calls[1].reply.kind = "response"
    /\ calls[1].reply.data = JStr(JsonBodies[1].text)
    /\ calls[1].outcome.value
        = [type |-> "transformed", by |-> "tagB",
           of |-> [type |-> "transformed", by |-> "tagA", of |-> JsonBodies[1].value]]

\* C14: a setupHooks that was supplied has been invoked exactly once, by the
\* constructor, with the transport instance of the client, and no call of a
\* method invokes it again; without setupHooks nothing is ever invoked.
C14_HooksOnceAtConstruction ==
    /\ pc = "new" => hookCalls = <<>>
    /\ pc = "ready" =>
        IF GivenHooks # NoHooks
        THEN hookCalls = <<[fn |-> GivenHooks, arg |-> instance, during |-> "constructor"]>>
        ELSE hookCalls = <<>>

\* a client constructed with setupHooks that has since settled a call
C14_Witness ==
    /\ GivenHooks = "setupHooks"
    /\ calls # <<>>
    /\ Len(hookCalls) = 1
    /\ hookCalls[1].arg = instance

\* the value of property k of the options of call i, where it has one
Given(i, k) == calls[i].op.options.defined /\ k \in DOMAIN calls[i].op.options.bag

\* C17: get, post, put, patch and delete each make exactly one call of the
\* transport, of the method of the same name and with the URL given; the body
\* travels as the data of post, put and patch and inside the configuration of
\* delete; params, headers, timeout and signal of the options arrive as they
\* were given and nothing else is added; the call resolves to the data of the
\* response, not to its envelope.
C17_WrappersForward ==
    \A i \in Calls :
        LET op == calls[i].op
            made == calls[i].made
        IN  op.name \in {"get", "post", "put", "patch", "delete"} =>
            /\ Len(made) = 1
            /\ made[1].fn = op.name
            /\ made[1].url = op.url
            /\ op.name \in {"post", "put", "patch"} =>
                /\ made[1].data = op.data
                /\ DOMAIN made[1].config \subseteq RequestOptionKeys
            /\ op.name = "delete" =>
                /\ "data" \in DOMAIN made[1].config <=> op.data # JUndefined
                /\ op.data # JUndefined => made[1].config["data"] = op.data
                /\ DOMAIN made[1].config \subseteq RequestOptionKeys \cup {"data"}
            /\ op.name = "get" => DOMAIN made[1].config \subseteq RequestOptionKeys
            /\ \A k \in RequestOptionKeys :
                /\ k \in DOMAIN made[1].config <=> Given(i, k)
                /\ Given(i, k) => made[1].config[k] = op.options.bag[k]
            /\ calls[i].reply.kind # "requestError" => Len(sent) = 1
            /\ calls[i].reply.kind = "response" =>
                calls[i].outcome = [kind |-> "resolved", value |-> calls[i].settled.data]

\* a delete with a body and all four options, answered with a response
C17_Witness ==
    /\ calls # <<>>
    /\ calls[1].op.name = "delete"
    /\ calls[1].op.data = PlainPayload
    /\ calls[1].op.options = FullOptions
    /\ calls[1].made[1].config["data"] = PlainPayload
    /\ calls[1].made[1].config["timeout"] = 5000
    /\ calls[1].reply.kind = "response"
    /\ calls[1].outcome.kind = "resolved"

\* C18: postUploadFile posts the payload with the caller's headers; it sets
\* Content-Type to multipart/form-data exactly when the payload is present
\* and no FormData, and otherwise leaves the headers as the caller gave them;
\* onUploadProgress, params, timeout and signal are passed on as given.
C18_UploadContentType ==
    \A i \in Calls :
        LET op == calls[i].op
            made == calls[i].made
            given == IF Given(i, "headers") THEN op.options.bag["headers"] ELSE EmptyHeaders
            plain == op.data.type \notin {"undefined", "FormData"}
        IN  op.name = "postUploadFile" =>
            /\ Len(made) = 1
            /\ made[1].fn = "post" /\ made[1].url = op.url /\ made[1].data = op.data
            /\ "headers" \in DOMAIN made[1].config
            /\ plain =>
                /\ HGet(made[1].config["headers"], "Content-Type") = MultipartFormData
                /\ \A k \in DOMAIN given \ {"Content-Type"} :
                    HGet(made[1].config["headers"], k) = given[k]
                /\ DOMAIN made[1].config["headers"] = DOMAIN given \cup {"Content-Type"}
            /\ ~plain => made[1].config["headers"] = given
            /\ \A k \in {"onUploadProgress", "params", "timeout", "signal"} :
                /\ k \in DOMAIN made[1].config <=> Given(i, k)
                /\ Given(i, k) => made[1].config[k] = op.options.bag[k]

\* the upload of a FormData whose caller set a Content-Type and an observer
C18_Witness ==
    /\ calls # <<>>
    /\ calls[1].op.name = "postUploadFile"
    /\ calls[1].op.data = FormDataPayload
    /\ calls[1].op.options = UploadHeaderOptions
    /\ HGet(calls[1].made[1].config["headers"], "Content-Type") = ApplicationJson
    /\ calls[1].made[1].config["onUploadProgress"] = "onUploadProgress"

\* C19: when the transport fails a call (a status outside 2xx, a network
\* failure, a cancellation) or an interceptor that runs before the hook
\* fails it, the method rejects with that very error, and the request was
\* sent at most once.
C19_FailuresPropagate ==
    \A i \in Calls :
        calls[i].reply.kind \in {"error", "requestError"} =>
            /\ calls[i].outcome = [kind |-> "rejected", error |-> calls[i].reply.error]
            /\ Len(sent) = IF calls[i].reply.kind = "error" THEN 1 ELSE 0

\* an upload that the transport failed with a network error
C19_Witness ==
    /\ calls # <<>>
    /\ calls[1].op.name = "postUploadFile"
    /\ calls[1].reply = [kind |-> "error", error |-> [code |-> "ERR_NETWORK", status |-> 0]]
    /\ calls[1].outcome.kind = "rejected"
    /\ calls[1].outcome.error.code = "ERR_NETWORK"

\* the constructor call of the object form that a legacy call stands for
ObjectFormOf(call) ==
    [configOrAxios |-> [axiosConfig |-> call.configOrAxios, setupHooks |-> call.setupHooks],
     setupHooks |-> NoHooks]

\* C20: a client constructed from a plain transport configuration and an
\* optional positional setupHooks is the client the object form
\* {axiosConfig, setupHooks} constructs: the tracing options are at their
\* defaults (header X-Transaction-ID, injection on, trace context off, no
\* service name), the instance is created from that configuration, setupHooks
\* is invoked the same way, and a request carries a UUID under
\* X-Transaction-ID unless the caller set one and nothing else of the hook.
C20_LegacyConstruction ==
    (pc = "ready" /\ "axiosConfig" \notin DOMAIN ctor.configOrAxios) =>
        LET object == ObjectFormOf(ctor).configOrAxios
        IN  /\ cfg = [transactionIdHeader |-> "X-Transaction-ID",
                      disableTransactionId |-> FALSE,
                      enableTraceContext |-> FALSE,
                      useTraceIdAsTransactionId |-> FALSE,
                      serviceName |-> Undefined]
            /\ cfg = TracingOptions(object)
            /\ hookInstalled
            /\ instance.axiosConfig = ctor.configOrAxios
            /\ instance = createInstance(object["axiosConfig"])
            /\ hookCalls = invokeHooks(object["setupHooks"], instance, <<>>)
            /\ \A i \in Requests :
                /\ Truthy(HGet(In(i), "X-Transaction-ID"))
                    \/ IsUuidV4(HGet(Out(i), "X-Transaction-ID"))
                /\ DOMAIN Out(i) = DOMAIN In(i) \cup {"X-Transaction-ID"}

\* a legacy client with a positional setupHooks whose request left with a
\* generated transaction id
C20_Witness ==
    /\ "axiosConfig" \notin DOMAIN ctor.configOrAxios
    /\ ctor.setupHooks = "setupHooks"
    /\ Len(hookCalls) = 1
    /\ sent # <<>>
    /\ "X-Transaction-ID" \notin DOMAIN In(1)
    /\ IsUuidV4(HGet(Out(1), "X-Transaction-ID"))

----------------------------------------------------------------------------
(* Vocabulary of the properties about the decision sequence *)

\* a header name in lower case, the form in which HTTP compares names
LowerCase(k) ==
    CASE k = "X-Transaction-ID" -> "x-transaction-id"
      [] k = "X-Request-ID" -> "x-request-id"
      [] k = "Traceparent" -> "traceparent"
      [] k = "X-Trace-ID" -> "x-trace-id"
      [] k = "X-Source-Service" -> "x-source-service"
      [] k = "Authorization" -> "authorization"
      [] k = "Content-Type" -> "content-type"
      [] OTHER -> k

\* the header names the hook writes for the client's configuration
ManagedHeaders == {cfg.transactionIdHeader, "traceparent", "X-Trace-ID", "X-Source-Service"}

\* C21: a header the caller supplied with a value, under a name that differs
\* from a managed name by letter case only, counts as present: the hook adds
\* no entry of the managed name next to it.
C21_CaseInsensitivePresence ==
    \A i \in Requests :
        \A m \in ManagedHeaders, k \in DOMAIN In(i) :
            (k # m /\ LowerCase(k) = LowerCase(m) /\ Truthy(In(i)[k])) =>
                (m \in DOMAIN Out(i) => m \in DOMAIN In(i))

\* C22 as stated: with enableTraceContext, no X-Trace-ID from the caller and
\* a trace id observed from the active span or from the traceparent the hook
\* synthesized, X-Trace-ID is set to that trace id.
C22_Original ==
    \A i \in Requests :
        (hookInstalled /\ cfg.enableTraceContext /\ ~Supplied(i, "X-Trace-ID")) =>
            /\ SpanObserved(i) => HGet(Out(i), "X-Trace-ID") = sent[i].span.traceId
            /\ (~SpanObserved(i) /\ Synthesized(i)) =>
                HGet(Out(i), "X-Trace-ID") = TraceIdSegment(HGet(Out(i), "traceparent"))

\* C22: with enableTraceContext and no X-Trace-ID from the caller, X-Trace-ID
\* is set to the trace id of the active span when there is one; the trace id
\* of a traceparent the hook synthesized, the only trace id observed when no
\* span is active, is not written to X-Trace-ID.
C22_TraceIdHeaderFromSpan ==
    \A i \in Requests :
        (hookInstalled /\ cfg.enableTraceContext /\ ~Supplied(i, "X-Trace-ID")) =>
            /\ SpanObserved(i) => HGet(Out(i), "X-Trace-ID") = sent[i].span.traceId
            /\ (~SpanObserved(i) /\ Synthesized(i)) =>
                /\ "X-Trace-ID" \notin DOMAIN Out(i)
                /\ IsTraceparent(HGet(Out(i), "traceparent"))

\* a request under an active span that left with the span's trace id in
\* X-Trace-ID and a synthesized traceparent of another trace id
C22_Witness ==
    /\ cfg.enableTraceContext
    /\ \E i \in Requests :
        /\ SpanObserved(i)
        /\ DOMAIN In(i) = {}
        /\ HGet(Out(i), "X-Trace-ID") = sent[i].span.traceId
        /\ Synthesized(i)
        /\ TraceIdSegment(HGet(Out(i), "traceparent")) # sent[i].span.traceId

\* C23: the hook writes X-Trace-ID only under an active span and only with
\* that span's trace id; without an active span (no tracing API, no current
\* span, a failed lookup) X-Trace-ID leaves as the caller gave it, also when
\* the hook synthesizes a traceparent for the same request.
C23_TraceIdHeaderOnlyFromSpan ==
    \A i \in Requests :
        /\ ~SpanObserved(i) => Kept(i, "X-Trace-ID")
        /\ ~Kept(i, "X-Trace-ID") =>
            /\ SpanObserved(i)
            /\ HGet(Out(i), "X-Trace-ID") = sent[i].span.traceId

\* a request whose span lookup failed: the hook synthesized a traceparent
\* and wrote no X-Trace-ID
C23_Witness ==
    /\ cfg.enableTraceContext /\ otel
    /\ \E i \in Requests :
        /\ sent[i].span.kind = "throws"
        /\ Synthesized(i)
        /\ "X-Trace-ID" \notin DOMAIN Out(i)

\* the headers the hook of this client decides for a request on its own:
\* from the caller's headers, the span active at that moment and the random
\* arrays from position d on, with no trace id observed yet
Isolated(config, span, d) ==
    LET fresh == [headers |-> IF config.headersDefined THEN config.headers ELSE EmptyHeaders,
                  traceId |-> Undefined,
                  drawn |-> d,
                  error |-> "none"]
    IN  IF hookInstalled
        THEN InjectServiceName(InjectTransactionId(InjectTraceparent(
                LookupActiveSpan(fresh, span)))).headers
        ELSE fresh.headers

\* the hook wrote header k of request i
Written(i, k) == k \in DOMAIN Out(i) /\ ~Kept(i, k)

\* C24: after any earlier requests, the headers of a request are those the
\* hook decides from that request's own headers, the configuration, the span
\* active at that moment and fresh random arrays; an identifier the hook
\* wrote for an earlier request reappears only as the trace id of the span
\* active now.
C24_NoCarryOver ==
    \A j \in Requests :
        /\ \E d \in 0..(RngPeriod - 1) : Out(j) = Isolated(sent[j].config, sent[j].span, d)
        /\ \A i \in 1..(j - 1) :
            \A k1, k2 \in {cfg.transactionIdHeader, "traceparent", "X-Trace-ID"} :
                (Written(i, k1) /\ Written(j, k2) /\ Out(j)[k2] = Out(i)[k1]) =>
                    (SpanObserved(j) /\ Out(j)[k2] = sent[j].span.traceId)

\* a request under an active span whose trace id became the transaction id,
\* followed by a request without a span that got a random transaction id
C24_Witness ==
    /\ Len(sent) = 2
    /\ cfg.useTraceIdAsTransactionId /\ ~cfg.disableTransactionId
    /\ SpanObserved(1)
    /\ Out(1)[cfg.transactionIdHeader] = sent[1].span.traceId
    /\ sent[2].span.kind = "none"
    /\ ~Supplied(2, cfg.transactionIdHeader)
    /\ IsUuidV4(Out(2)[cfg.transactionIdHeader])

\* C25: with several requests in flight on one client, in every order in
\* which their hooks run and their responses arrive, a request that waits
\* for its hook still has the headers its caller gave it, and a request
\* whose hook has run has the headers the hook decides for it on its own;
\* what the hook of another request did in between shows in neither.
C25_HookAtomic ==
    \A n \in DOMAIN flight :
        IF flight[n].phase = "issued"
        THEN flight[n].headers = (IF flight[n].config.headersDefined
                                  THEN flight[n].config.headers ELSE EmptyHeaders)
        ELSE \E d \in 0..(RngPeriod - 1) :
                flight[n].headers = Isolated(flight[n].config, flight[n].span, d)

\* two requests issued with the same options; the hook of the second ran
\* first, under a span, while the first still waits for its hook
C25_Witness ==
    /\ Len(flight) = 2
    /\ hookInstalled /\ ~cfg.disableTransactionId
    /\ flight[1].config = flight[2].config
    /\ flight[1].phase = "issued"
    /\ flight[2].phase = "done"
    /\ flight[2].span.kind = "span"
    /\ flight[2].headers # flight[1].headers

\* C26: once the client is constructed, no step changes the five
\* configuration values (transaction header name, disableTransactionId,
\* enableTraceContext, useTraceIdAsTransactionId, serviceName), whether the
\* call it performs succeeds or fails.
C26_ConfigImmutable ==
    [][pc = "ready" =>
        /\ cfg'.transactionIdHeader = cfg.transactionIdHeader
        /\ cfg'.disableTransactionId = cfg.disableTransactionId
        /\ cfg'.enableTraceContext = cfg.enableTraceContext
        /\ cfg'.useTraceIdAsTransactionId = cfg.useTraceIdAsTransactionId
        /\ cfg'.serviceName = cfg.serviceName]_vars

\* a client configured away from the defaults whose call was rejected
C26_Witness ==
    /\ calls # <<>>
    /\ calls[1].outcome.kind = "rejected"
    /\ sent # <<>>
    /\ cfg = TracedConfig

\* the even lengths randomHex is asked for: none, one byte, a parent id and
\* a trace id
HexLengths == {0, 2, 16, 32}

\* C27: with a strong random source and without one, randomHex returns for
\* every even length exactly that many lowercase hex digits, two for each
\* byte and every byte within 0..255, and a request that needs a traceparent
\* or a transaction id gets a well-formed one in either environment.
C27_RandomHexTotal ==
    /\ \A length \in HexLengths, nonce \in {NonceAt(draws, 0), NonceAt(draws, 1)} :
        /\ Len(randomHex(length, nonce)) = length
        /\ AllHex(randomHex(length, nonce))
        /\ Len(randomBytes(length, nonce)) * 2 = length
        /\ \A i \in 1..Len(randomBytes(length, nonce)) :
            randomBytes(length, nonce)[i] \in 0..255
    /\ \A i \in Requests :
        /\ Synthesized(i) => IsTraceparent(HGet(Out(i), "traceparent"))
        /\ (hookInstalled /\ ~cfg.disableTransactionId /\ DOMAIN In(i) = {}) =>
            \/ IsUuidV4(HGet(Out(i), cfg.transactionIdHeader))
            \/ /\ cfg.useTraceIdAsTransactionId
               /\ Len(HGet(Out(i), cfg.transactionIdHeader)) = 32
               /\ AllHex(HGet(Out(i), cfg.transactionIdHeader))

\* a process without a strong random source whose request left with a
\* synthesized traceparent and its trace id as the transaction id
C27_Witness ==
    /\ entropy.kind = "math"
    /\ cfg.enableTraceContext /\ cfg.useTraceIdAsTransactionId /\ ~cfg.disableTransactionId
    /\ \E i \in Requests :
        /\ DOMAIN In(i) = {}
        /\ ~SpanObserved(i)
        /\ IsTraceparent(HGet(Out(i), "traceparent"))
        /\ HGet(Out(i), cfg.transactionIdHeader) = TraceIdSegment(HGet(Out(i), "traceparent"))

\* C28: the hook removes no header, adds entries only under the configured
\* transaction header, 'traceparent', 'X-Trace-ID' and 'X-Source-Service',
\* and leaves the value of every other header (Authorization, custom ones,
\* names that differ from these by letter case) as the caller gave it.
C28_AdditiveFrame ==
    \A i \in Requests :
        /\ DOMAIN In(i) \subseteq DOMAIN Out(i)
        /\ (DOMAIN Out(i) \ DOMAIN In(i)) \subseteq ManagedHeaders
        /\ \A k \in DOMAIN In(i) \ ManagedHeaders : Out(i)[k] = In(i)[k]

\* a request with an Authorization header, to which the hook added three
\* entries while Authorization left as it came
C28_Witness ==
    \E i \in Requests :
        /\ hookInstalled
        /\ In(i) = [x \in {"Authorization"} |-> CallerValue]
        /\ Out(i)["Authorization"] = CallerValue
        /\ {cfg.transactionIdHeader, "traceparent", "X-Source-Service"} \subseteq DOMAIN Out(i)

\* C29: the constructor resolves the tracing API, and only when it installs
\* the hook; afterwards the client keeps what it resolved.  A request of a
\* client that resolved none is decided as without a span, also when an API
\* was registered since and a span is active; a request of a client that
\* resolved one is decided from the span that API reports at that moment.
C29_RuntimeResolvedOnce ==
    [][/\ (pc = "new" /\ pc' = "ready") => otel' = (hookInstalled' /\ globalOtel)
       /\ pc = "ready" => otel' = otel
       /\ (pc = "ready" /\ sent' # sent) =>
            \E d \in 0..(RngPeriod - 1) :
                sent'[Len(sent')].headers
                    = Isolated(sent'[Len(sent')].config,
                               IF otel THEN sent'[Len(sent')].span ELSE [kind |-> "none"],
                               d)]_vars

\* a client constructed before a tracing API was registered: its request,
\* issued under an active span, left without X-Trace-ID
C29_Witness ==
    /\ globalOtel /\ ~otel /\ hookInstalled
    /\ cfg.enableTraceContext
    /\ sent # <<>>
    /\ sent[1].span.kind = "span"
    /\ "X-Trace-ID" \notin DOMAIN Out(1)
    /\ Synthesized(1)

\* C30: when a request that left the hook is sent through the hook of the
\* same client again, with the span environment it had the first time, the
\* hook changes nothing: the request leaves with the headers it came with,
\* its transaction id, traceparent, X-Trace-ID and X-Source-Service are those
\* of the first pass, and no random array is drawn.
C30_Idempotent ==
    [][(Len(sent) = 1 /\ Len(sent') = 2 /\ sent'[2].span = sent[1].span) =>
        /\ sent'[2].headers = sent'[2].config.headers
        /\ \A k \in ManagedHeaders : HGet(sent'[2].headers, k) = HGet(sent[1].headers, k)
        /\ draws' = draws]_vars

\* a request that got a generated transaction id and a synthesized
\* traceparent and was sent again with a refreshed Authorization
C30_Witness ==
    /\ Len(sent) = 2
    /\ cfg.enableTraceContext /\ ~cfg.disableTransactionId
    /\ sent[2].span = sent[1].span
    /\ DOMAIN In(1) = {}
    /\ Synthesized(1)
    /\ IsUuidV4(HGet(Out(1), cfg.transactionIdHeader))
    /\ HGet(Out(2), "Authorization") = RefreshedToken
    /\ HGet(Out(2), cfg.transactionIdHeader) = HGet(Out(1), cfg.transactionIdHeader)
    /\ HGet(Out(2), "traceparent") = HGet(Out(1), "traceparent")

====
